---- MODULE Spec2Model ----
(***************************************************************************)
(* Wallet-session and contract-call orchestration of the two React         *)
(* components of the repository:                                           *)
(*   Hero   = src/src/ProjectComponents/Hero1732186907/component.tsx       *)
(*   Footer = src/src/ProjectComponents/Footer1732186907/component.tsx     *)
(*                                                                         *)
(* A component is a set of useState cells (provider, signer, contract,     *)
(* result, error) and async handlers.  A handler is a closure over the     *)
(* cells of the render in which it was created: the values it reads are    *)
(* the ones current when the user triggered it, also after an await.       *)
(* Every await is a suspension point: the handler continues in a later     *)
(* step, when the awaited promise is fulfilled or rejected, and other      *)
(* handlers may run in between.                                            *)
(*                                                                         *)
(* In the Footer component the cells poolAddress and errorMessage play     *)
(* the part of result and error; they start as '' instead of null.         *)
(***************************************************************************)
EXTENDS Integers, Sequences, FiniteSets, TLC

VARIABLES
    comp,        \* which component this instance is: "Hero" or "Footer"
    ethereum,    \* window.ethereum is injected
    walletChain, \* the chain id the wallet is on
    mounted,     \* the mount effect (init) has run
    provider,    \* useState cell
    signer,      \* useState cell (Footer only; stays null in Hero)
    contract,    \* useState cell
    result,      \* useState cell: result (Hero), poolAddress (Footer)
    error,       \* useState cell: error (Hero), errorMessage (Footer)
    ops          \* the handler invocations so far, in trigger order

vars == <<comp, ethereum, walletChain, mounted, provider, signer, contract,
          result, error, ops>>

(* ------------------------------ bounds -------------------------------- *)

\* number of user triggers in a run
MaxOps == 2
\* number of events in a transaction receipt
MaxEvents == 2

(* ------------------------- program constants -------------------------- *)

chainId == 1
contractAddress == "0x1F98431c8aD98523631AE4a59f267346ea31F984"

(* --------------------------- value domains ---------------------------- *)

NULL == "<null>"
Components == {"Hero", "Footer"}
\* the chains a wallet may be on: the target chain and another one
Chains == {chainId, 5}
Addrs == {"0xA1", "0xA2"}
Fees == {500}
Ticks == {10, 60}
\* message texts of the provider for a failed call or confirmation
Messages == {"execution reverted", "network error"}

\* JavaScript truthiness of a nullable string cell
Truthy(v) == v # NULL /\ v # ""

(* ------------------------- remote-side values ------------------------- *)

\* An event of a receipt, as the contract wrapper decodes it: a log the ABI
\* does not describe has neither a name nor args.
PoolCreated(a) == [event |-> "PoolCreated", args |-> [defined |-> TRUE, pool |-> a]]
\* a decoded event of another name, whose args carry no field 'pool'
Transfer == [event |-> "Transfer", args |-> [defined |-> TRUE, pool |-> "undefined"]]
Undecoded == [event |-> "undefined", args |-> [defined |-> FALSE, pool |-> "undefined"]]
Events == {PoolCreated("0xA1"), Transfer, Undecoded}
Receipts == UNION {[1..n -> Events] : n \in 0..MaxEvents}

\* the struct parameters() returns
ParamValues ==
    {[factory |-> "0xF0", token0 |-> "0xA1", token1 |-> "0xA2", fee |-> 500, tickSpacing |-> 10]}

\* What a settled promise hands to the handler that awaited it.
NoValue ==
    [ok |-> TRUE, msg |-> "", chain |-> 0, addr |-> "", tick |-> 0,
     params |-> CHOOSE p \in ParamValues : TRUE, events |-> <<>>]
Failure(m) == [NoValue EXCEPT !.ok = FALSE, !.msg = m]

(* --------------------------- the state cells -------------------------- *)

\* the initial value of the result and error cells
Unset == IF comp = "Hero" THEN NULL ELSE ""
Cells == [result |-> result, error |-> error]

\* Hero: setResult(v).  Footer: setPoolAddress(v); setErrorMessage('').
StoreResult(st, v) ==
    IF comp = "Hero" THEN [st EXCEPT !.result = v]
    ELSE [st EXCEPT !.result = v, !.error = ""]
\* StoreError that clears the result
StoreErrorClearing(st, m) == [st EXCEPT !.error = m, !.result = Unset]

\* Hero: setError(m).  Footer: setErrorMessage(m).
StoreError(st, m) == [st EXCEPT !.error = m]

(* ------------------------- handler invocations ------------------------ *)

Kinds ==
    IF comp = "Hero"
    THEN {"createPool", "getFeeAmountTickSpacing", "getPool", "getParameters"}
    ELSE {"createPool", "getPool"}
ReadKinds == {"getFeeAmountTickSpacing", "getPool", "getParameters"}

\* A handler invocation: the closure it runs with, where it is suspended,
\* the requests it has sent, and what it was last handed.  The other fields
\* are history: whether init had run and the wallet's chain at the trigger,
\* the awaits that were rejected, the result and error cells before and
\* after the step that ended the invocation, and its rank among the ended
\* invocations (0 while it runs).
NewOp(kind, fee) ==
    [kind |-> kind, fee |-> fee, pc |-> "start",
     provider |-> provider, signer |-> signer, contract |-> contract,
     sent |-> <<>>, got |-> NoValue,
     mounted |-> mounted, net |-> walletChain, rejected |-> <<>>,
     before |-> Cells, after |-> Cells, seq |-> 0]

At(op, pc) == [op EXCEPT !.pc = pc]
Send(op, what) == [op EXCEPT !.sent = Append(@, what)]

\* the first test of every operation: if (!contract) / if (!contract || !signer)
NeedsConnect(op) ==
    IF comp = "Hero" THEN op.contract = NULL
    ELSE op.contract = NULL \/ op.signer = NULL

\* CanCall with the test after connectWallet left out
CanCallUnchecked(op) == TRUE

\* the test after connectWallet: if (contract) / if (!contract || !signer) return
CanCall(op) ==
    IF comp = "Hero" THEN op.contract # NULL
    ELSE ~(op.contract = NULL \/ op.signer = NULL)

\* contract.<method>(args) is invoked and awaited
IssueCall(op) == At(Send(op, "call"), "awaitCall")

\* what an operation does once connectWallet has returned
AfterConnect(op) == IF CanCall(op) THEN IssueCall(op) ELSE At(op, "done")

\* connectWallet without its test of provider
connectWalletUnguarded(op) == At(Send(op, "eth_requestAccounts"), "awaitAccounts")

\* connectWallet up to its first await
connectWallet(op) ==
    IF op.provider # NULL
    THEN At(Send(op, "eth_requestAccounts"), "awaitAccounts")
    ELSE AfterConnect(op)

\* Operation behind an in-flight guard: nothing is done while another
\* invocation is pending
OperationGuarded(op) ==
    IF \E j \in 1..Len(ops) : ops[j].pc # "done" THEN At(op, "done")
    ELSE IF NeedsConnect(op) THEN connectWallet(op)
    ELSE IF comp = "Hero" THEN AfterConnect(op)
    ELSE IssueCall(op)

\* Operation that awaits connectWallet whether it has a contract or not
OperationAlwaysConnect(op) == connectWallet(op)

\* an operation up to its first await
Operation(op) ==
    IF NeedsConnect(op) THEN connectWallet(op)
    ELSE IF comp = "Hero" THEN AfterConnect(op)
    ELSE IssueCall(op)

(* ----------------------- formatting of outcomes ----------------------- *)

\* the text an operation puts before the provider's message
FailPrefix(kind) ==
    CASE kind = "createPool" -> "Failed to create pool: "
      [] kind = "getFeeAmountTickSpacing" -> "Failed to get fee amount tick spacing: "
      [] kind = "getPool" -> "Failed to get pool: "
      [] kind = "getParameters" -> "Failed to get parameters: "

\* the text a read operation stores for the decoded value
ReadResult(op, out) ==
    IF comp = "Footer" THEN out.addr
    ELSE CASE op.kind = "getFeeAmountTickSpacing" ->
                "Tick spacing for fee " \o ToString(op.fee) \o ": " \o ToString(out.tick)
           [] op.kind = "getPool" -> "Pool address: " \o out.addr
           [] op.kind = "getParameters" ->
                "Factory: " \o out.params.factory \o ", Token0: " \o out.params.token0
                \o ", Token1: " \o out.params.token1
                \o ", Fee: " \o ToString(out.params.fee)
                \o ", Tick Spacing: " \o ToString(out.params.tickSpacing)

\* receipt.events.find((e) => e.event === 'PoolCreated'): the index of the
\* first such event, 0 if there is none
FindPoolCreated(events) ==
    IF \E i \in 1..Len(events) : events[i].event = "PoolCreated"
    THEN CHOOSE i \in 1..Len(events) :
            /\ events[i].event = "PoolCreated"
            /\ \A j \in 1..(i - 1) : events[j].event # "PoolCreated"
    ELSE 0

\* Hero, line 100: receipt.events[0].args.pool is read whatever the event
\* is; reading a property of undefined throws a TypeError, which the
\* enclosing catch turns into an error message.
HeroReceipt(st, events) ==
    IF Len(events) = 0
    THEN StoreError(st, FailPrefix("createPool")
                        \o "Cannot read properties of undefined (reading 'args')")
    ELSE IF ~events[1].args.defined
    THEN StoreError(st, FailPrefix("createPool")
                        \o "Cannot read properties of undefined (reading 'pool')")
    ELSE StoreResult(st, "Pool created: " \o events[1].args.pool)

\* Footer, lines 88-92: the first PoolCreated event, if any, gives the result
FooterReceipt(st, events) ==
    IF FindPoolCreated(events) # 0
    THEN StoreResult(st, events[FindPoolCreated(events)].args.pool)
    ELSE st

Receipt(st, events) ==
    IF comp = "Hero" THEN HeroReceipt(st, events) ELSE FooterReceipt(st, events)

(* --------------------------- continuations ---------------------------- *)

\* A continuation yields the invocation, the cells and the wallet's chain
\* after it.
Yield(op, st, chain) == [op |-> op, st |-> st, chain |-> chain]

\* Fulfilled without the comparison of network.chainId with chainId: the
\* switch is requested whatever the network is
FulfilledAlwaysSwitch(op, out, st) ==
    CASE op.pc = "awaitAccounts" ->
            Yield(At(Send(op, "getNetwork"), "awaitNetwork"), st, walletChain)
      [] op.pc = "awaitNetwork" ->
            Yield(At(Send(op, "wallet_switchEthereumChain"), "awaitSwitch"),
                  st, walletChain)
      [] op.pc = "awaitSwitch" ->
            Yield(AfterConnect(op), st, chainId)
      [] op.pc = "awaitCall" ->
            IF op.kind = "createPool"
            THEN Yield(At(Send(op, "wait"), "awaitWait"), st, walletChain)
            ELSE Yield(At(op, "done"), StoreResult(st, ReadResult(op, out)), walletChain)
      [] op.pc = "awaitWait" ->
            Yield(At(op, "done"), Receipt(st, out.events), walletChain)

\* the awaited promise is fulfilled with out
Fulfilled(op, out, st) ==
    CASE op.pc = "awaitAccounts" ->
            Yield(At(Send(op, "getNetwork"), "awaitNetwork"), st, walletChain)
      [] op.pc = "awaitNetwork" ->
            IF out.chain # chainId
            THEN Yield(At(Send(op, "wallet_switchEthereumChain"), "awaitSwitch"),
                       st, walletChain)
            ELSE Yield(AfterConnect(op), st, walletChain)
      [] op.pc = "awaitSwitch" ->
            Yield(AfterConnect(op), st, chainId)
      [] op.pc = "awaitCall" ->
            IF op.kind = "createPool"
            THEN Yield(At(Send(op, "wait"), "awaitWait"), st, walletChain)
            ELSE Yield(At(op, "done"), StoreResult(st, ReadResult(op, out)), walletChain)
      [] op.pc = "awaitWait" ->
            Yield(At(op, "done"), Receipt(st, out.events), walletChain)

\* Rejected without the inner try of connectWallet: the outer catch takes a
\* rejected switch
RejectedOuterCatch(op, out, st) ==
    CASE op.pc \in {"awaitAccounts", "awaitNetwork", "awaitSwitch"} ->
            Yield(AfterConnect(op), StoreError(st, "Failed to connect wallet"), walletChain)
      [] op.pc \in {"awaitCall", "awaitWait"} ->
            Yield(At(op, "done"), StoreError(st, FailPrefix(op.kind) \o out.msg),
                  walletChain)

\* Rejected without the try/catch of the operations: a rejected call or
\* confirmation leaves the handler as an unhandled rejection
RejectedUncaught(op, out, st) ==
    CASE op.pc \in {"awaitAccounts", "awaitNetwork"} ->
            Yield(AfterConnect(op), StoreError(st, "Failed to connect wallet"), walletChain)
      [] op.pc = "awaitSwitch" ->
            Yield(AfterConnect(op),
                  StoreError(st, "Failed to switch to the correct network"), walletChain)
      [] op.pc \in {"awaitCall", "awaitWait"} ->
            Yield(At(op, "threw"), st, walletChain)

\* Rejected with the catch of connectWallet around provider.send alone: after
\* a rejected authorization connectWallet goes on to read the network
RejectedAccountsContinue(op, out, st) ==
    CASE op.pc = "awaitAccounts" ->
            Yield(At(Send(op, "getNetwork"), "awaitNetwork"),
                  StoreError(st, "Failed to connect wallet"), walletChain)
      [] op.pc = "awaitNetwork" ->
            Yield(AfterConnect(op), StoreError(st, "Failed to connect wallet"), walletChain)
      [] op.pc = "awaitSwitch" ->
            Yield(AfterConnect(op),
                  StoreError(st, "Failed to switch to the correct network"), walletChain)
      [] op.pc \in {"awaitCall", "awaitWait"} ->
            Yield(At(op, "done"), StoreError(st, FailPrefix(op.kind) \o out.msg),
                  walletChain)

\* Rejected where a rejected contract call is submitted again
RejectedRetry(op, out, st) ==
    CASE op.pc \in {"awaitAccounts", "awaitNetwork"} ->
            Yield(AfterConnect(op), StoreError(st, "Failed to connect wallet"), walletChain)
      [] op.pc = "awaitSwitch" ->
            Yield(AfterConnect(op),
                  StoreError(st, "Failed to switch to the correct network"), walletChain)
      [] op.pc = "awaitCall" ->
            Yield(IssueCall(op), StoreError(st, FailPrefix(op.kind) \o out.msg), walletChain)
      [] op.pc = "awaitWait" ->
            Yield(At(op, "done"), StoreError(st, FailPrefix(op.kind) \o out.msg),
                  walletChain)

\* the awaited promise is rejected with out.msg
Rejected(op, out, st) ==
    CASE op.pc \in {"awaitAccounts", "awaitNetwork"} ->
            Yield(AfterConnect(op), StoreError(st, "Failed to connect wallet"), walletChain)
      [] op.pc = "awaitSwitch" ->
            Yield(AfterConnect(op),
                  StoreError(st, "Failed to switch to the correct network"), walletChain)
      [] op.pc \in {"awaitCall", "awaitWait"} ->
            Yield(At(op, "done"), StoreError(st, FailPrefix(op.kind) \o out.msg),
                  walletChain)

\* the values a pending promise may be fulfilled with
Fulfilments(op) ==
    CASE op.pc \in {"awaitAccounts", "awaitSwitch"} -> {NoValue}
      [] op.pc = "awaitNetwork" -> {[NoValue EXCEPT !.chain = walletChain]}
      [] op.pc = "awaitCall" ->
            (CASE op.kind = "createPool" -> {NoValue}
               [] op.kind = "getFeeAmountTickSpacing" ->
                     {[NoValue EXCEPT !.tick = t] : t \in Ticks}
               [] op.kind = "getPool" -> {[NoValue EXCEPT !.addr = a] : a \in Addrs}
               [] op.kind = "getParameters" ->
                     {[NoValue EXCEPT !.params = p] : p \in ParamValues})
      [] op.pc = "awaitWait" -> {[NoValue EXCEPT !.events = r] : r \in Receipts}
      [] OTHER -> {}

\* the messages a pending promise may be rejected with
Rejections(op) ==
    CASE op.pc \in {"awaitAccounts", "awaitNetwork", "awaitSwitch"} ->
            {Failure("User rejected the request")}
      [] op.pc \in {"awaitCall", "awaitWait"} -> {Failure(m) : m \in Messages}
      [] OTHER -> {}

\* the history an invocation keeps of the step that ended it
Ended(op, old, new) ==
    IF op.pc = "done"
    THEN [op EXCEPT !.before = old, !.after = new,
                    !.seq = 1 + Cardinality({j \in 1..Len(ops) : ops[j].pc = "done"})]
    ELSE op

\* the history an invocation keeps of what it was handed at pc
Handed(op, pc, out) ==
    [op EXCEPT !.got = out,
               !.rejected = IF out.ok THEN @ ELSE Append(@, pc)]

(* ------------------------------ actions ------------------------------- *)

Init ==
    /\ comp \in Components
    /\ ethereum \in BOOLEAN
    /\ walletChain \in Chains
    /\ mounted = FALSE
    /\ provider = NULL
    /\ signer = NULL
    /\ contract = NULL
    /\ result = Unset
    /\ error = Unset
    /\ ops = <<>>

\* Mount where init forgets setContract
MountNoContract ==
    /\ ~mounted
    /\ mounted' = TRUE
    /\ IF ethereum
       THEN /\ provider' = "web3Provider"
            /\ signer' = IF comp = "Footer" THEN "web3Signer" ELSE signer
            /\ UNCHANGED <<contract, error>>
       ELSE /\ error' = "Please install MetaMask to use this dApp"
            /\ UNCHANGED <<provider, signer, contract>>
    /\ UNCHANGED <<comp, ethereum, walletChain, result, ops>>

\* useEffect(() => { init() }, []): init has no await, it runs in one step
Mount ==
    /\ ~mounted
    /\ mounted' = TRUE
    /\ IF ethereum
       THEN /\ provider' = "web3Provider"
            /\ signer' = IF comp = "Footer" THEN "web3Signer" ELSE signer
            /\ contract' = contractAddress
            /\ error' = error
       ELSE /\ error' = "Please install MetaMask to use this dApp"
            /\ UNCHANGED <<provider, signer, contract>>
    /\ UNCHANGED <<comp, ethereum, walletChain, result, ops>>

\* init is left by an exception of one of its three library calls (new
\* Web3Provider, getSigner, new Contract): the cells set before the call stay
\* set, the later ones stay null, and nothing catches the exception.
ThrowPoints == {"Web3Provider", "getSigner", "Contract"}
MountThrows(at) ==
    /\ ~mounted
    /\ ethereum
    /\ at \in ThrowPoints
    /\ mounted' = TRUE
    /\ provider' = IF at = "Web3Provider" THEN provider ELSE "web3Provider"
    /\ signer' = IF comp = "Footer" /\ at = "Contract" THEN "web3Signer" ELSE signer
    /\ UNCHANGED <<comp, ethereum, walletChain, contract, result, error, ops>>

\* the user clicks the button of an operation
Trigger(kind, fee) ==
    /\ Len(ops) < MaxOps
    /\ kind \in Kinds
    /\ ops' = Append(ops, Ended(Operation(NewOp(kind, fee)), Cells, Cells))
    /\ UNCHANGED <<comp, ethereum, walletChain, mounted, provider, signer, contract,
                   result, error>>

\* Resume where connectWallet binds the contract once the switch is approved
ResumeBinding(i, y, out) ==
    /\ ops' = [ops EXCEPT ![i] = Ended(Handed(y.op, ops[i].pc, out), Cells, y.st)]
    /\ result' = y.st.result
    /\ error' = y.st.error
    /\ walletChain' = y.chain
    /\ contract' = IF ops[i].pc = "awaitSwitch" /\ out.ok THEN contractAddress ELSE contract
    /\ UNCHANGED <<comp, ethereum, mounted, provider, signer>>

\* a settled promise resumes the invocation that awaits it
Resume(i, y, out) ==
    /\ ops' = [ops EXCEPT ![i] = Ended(Handed(y.op, ops[i].pc, out), Cells, y.st)]
    /\ result' = y.st.result
    /\ error' = y.st.error
    /\ walletChain' = y.chain
    /\ UNCHANGED <<comp, ethereum, mounted, provider, signer, contract>>

Fulfil(i) ==
    /\ i \in 1..Len(ops)
    /\ \E out \in Fulfilments(ops[i]) : Resume(i, Fulfilled(ops[i], out, Cells), out)

Reject(i) ==
    /\ i \in 1..Len(ops)
    /\ \E out \in Rejections(ops[i]) : Resume(i, Rejected(ops[i], out, Cells), out)

Next ==
    \/ Mount
    \/ \E kind \in ReadKinds \cup {"createPool"}, fee \in Fees : Trigger(kind, fee)
    \/ \E i \in 1..MaxOps : Fulfil(i)
    \/ \E i \in 1..MaxOps : Reject(i)

Spec == Init /\ [][Next]_vars

\* The same component, where the library calls of init may throw.
NextInitThrows == Next \/ \E at \in ThrowPoints : MountThrows(at)
SpecInitThrows == Init /\ [][NextInitThrows]_vars

(* ------------------------------ claims -------------------------------- *)

Has(seq, x) == \E j \in 1..Len(seq) : seq[j] = x
Count(seq, x) == Cardinality({j \in 1..Len(seq) : seq[j] = x})
Before(seq, x, y) ==
    \E j \in 1..Len(seq), k \in 1..Len(seq) : j < k /\ seq[j] = x /\ seq[k] = y
Invocations == {ops[i] : i \in 1..Len(ops)}
NoWalletError == "Please install MetaMask to use this dApp"
SwitchError == "Failed to switch to the correct network"

\* C1: a contract call is attempted only by an invocation whose contract
\* handle is non-null.  An invocation that finds the handle null runs
\* connectWallet first (its first request is eth_requestAccounts when there
\* is a provider, and it sends nothing when there is none) and never issues
\* a call, not even once the contract cell has been set.
C1_CallOnlyWithContract ==
    \A op \in Invocations :
        /\ Has(op.sent, "call") => op.contract # NULL
        /\ (op.contract = NULL /\ op.provider # NULL) =>
                /\ op.sent # <<>>
                /\ op.sent[1] = "eth_requestAccounts"
        /\ (op.contract = NULL /\ op.provider = NULL) =>
                /\ op.sent = <<>>
                /\ op.pc = "done"

\* an invocation found no handle, went through connectWallet and ended
C1_Witness ==
    \E op \in Invocations :
        /\ op.contract = NULL
        /\ op.provider # NULL
        /\ op.pc = "done"
        /\ Has(op.sent, "getNetwork")

\* C2: an invocation triggered while the wallet is on another chain than
\* chainId requests a chain switch before it issues a contract call.
C2_SwitchBeforeCall ==
    \A op \in Invocations :
        (op.net # chainId /\ Has(op.sent, "call"))
            => Before(op.sent, "wallet_switchEthereumChain", "call")

\* C3: an invocation whose chain switch was rejected has stored the error
\* "Failed to switch to the correct network" in the step of the rejection,
\* has requested the switch once, and issues no contract call.
C3_SwitchRejected ==
    \A op \in Invocations :
        Has(op.rejected, "awaitSwitch") =>
            /\ op.pc = "done"
            /\ op.after.error = SwitchError
            /\ Count(op.sent, "wallet_switchEthereumChain") = 1
            /\ ~Has(op.sent, "call")

\* the chain switch of an invocation was rejected
C3_Witness == \E op \in Invocations : Has(op.rejected, "awaitSwitch")

\* C4: without an injected wallet at mount, the error is and stays the
\* install message, provider, signer and contract stay null, the result
\* stays unset, and no invocation sends any request.
C4_NoWallet ==
    (mounted /\ ~ethereum) =>
        /\ error = NoWalletError
        /\ provider = NULL /\ signer = NULL /\ contract = NULL
        /\ result = Unset
        /\ \A op \in Invocations : op.sent = <<>> /\ op.pc = "done"

\* without a wallet, an operation was triggered after mount and has ended
C4_Witness ==
    /\ mounted
    /\ ~ethereum
    /\ \E op \in Invocations : op.mounted /\ op.pc = "done"

\* C5: after an operation completes, exactly one of result and error is
\* non-empty (stated for the operations that ran with a contract handle).
C5_ExactlyOne ==
    \A op \in Invocations :
        (op.pc = "done" /\ op.contract # NULL)
            => (Truthy(op.after.result) # Truthy(op.after.error))

\* C6: storing a result clears the error and storing an error clears the
\* result, so result and error are never both non-empty.
C6_AtMostOne == ~(Truthy(result) /\ Truthy(error))

\* C7: a read operation triggered with a wallet present but no contract
\* handle, and none of whose requests is rejected, issues its read call and
\* ends with the decoded value stored as the result.
C7_ReadAfterConnect ==
    \A op \in Invocations :
        ( /\ op.kind \in ReadKinds
          /\ ethereum
          /\ op.contract = NULL
          /\ op.rejected = <<>>
          /\ op.pc = "done" )
        => /\ Has(op.sent, "call")
           /\ op.after.result = ReadResult(op, op.got)

\* C8: a createPool whose confirmed receipt holds a PoolCreated event ends
\* with the pool address of that event as the result.
C8_PoolOfEvent ==
    \A op \in Invocations :
        ( /\ op.kind = "createPool"
          /\ op.pc = "done"
          /\ Has(op.sent, "wait")
          /\ op.rejected = <<>>
          /\ FindPoolCreated(op.got.events) # 0 )
        => LET pool == op.got.events[FindPoolCreated(op.got.events)].args.pool
           IN  op.after.result \in {pool, "Pool created: " \o pool}

\* C9: a createPool whose confirmed receipt holds no PoolCreated event
\* ends with result and error as they were.
C9_SilentWithoutEvent ==
    \A op \in Invocations :
        ( /\ op.kind = "createPool"
          /\ op.pc = "done"
          /\ Has(op.sent, "wait")
          /\ op.rejected = <<>>
          /\ FindPoolCreated(op.got.events) = 0 )
        => op.after = op.before

\* C10: an operation whose contract call or confirmation was rejected ends
\* with the provider's message in the error and with the result unset.
C10_CallFailed ==
    \A op \in Invocations :
        ( /\ op.pc = "done"
          /\ (Has(op.rejected, "awaitCall") \/ Has(op.rejected, "awaitWait")) )
        => /\ op.after.error = FailPrefix(op.kind) \o op.got.msg
           /\ ~Truthy(op.after.result)

ErrorTexts ==
    {"Failed to connect wallet", SwitchError}
    \cup {FailPrefix(k) \o m : k \in Kinds, m \in Messages}

\* C11: no failure escapes a handler.  No invocation ends as an unhandled
\* rejection; an invocation one of whose awaits was rejected has ended
\* normally, in the step of the rejection, with one of the handlers' error
\* messages in the error cell; and a Hero createPool whose receipt cannot be
\* read (no first event, or a first event without args) ends normally with
\* an error message too.
C11_NoEscape ==
    \A op \in Invocations :
        /\ op.pc # "threw"
        /\ op.rejected # <<>> =>
                /\ op.pc = "done"
                /\ Len(op.rejected) = 1
                /\ op.after.error \in ErrorTexts
        /\ ( /\ comp = "Hero"
             /\ op.kind = "createPool"
             /\ op.pc = "done"
             /\ Has(op.sent, "wait")
             /\ op.rejected = <<>>
             /\ (op.got.events = <<>> \/ ~op.got.events[1].args.defined) )
           => op.after.error \in
                {FailPrefix("createPool") \o "Cannot read properties of undefined (reading '"
                    \o f \o "')" : f \in {"args", "pool"}}

\* the confirmation of a transaction was rejected and the handler has ended
C11_Witness ==
    \E op \in Invocations : op.pc = "done" /\ Has(op.rejected, "awaitWait")

\* the step in which invocation i is resumed from pc
ResumedFrom(i, pc) == ops[i].pc = pc /\ ops'[i].pc # pc

\* C12: the step in which the account authorization of connectWallet is
\* rejected stores "Failed to connect wallet", sends nothing (no network
\* read, no chain switch), ends the invocation, and leaves provider, signer
\* and contract as they were.
C12_AuthRejected ==
    [][\A i \in 1..Len(ops) :
          (ResumedFrom(i, "awaitAccounts") /\ ~ops'[i].got.ok) =>
              /\ error' = "Failed to connect wallet"
              /\ ops'[i].sent = ops[i].sent
              /\ ops'[i].pc = "done"
              /\ UNCHANGED <<provider, signer, contract>>]_vars

\* connectWallet ran with a provider and its authorization was rejected
C12_Witness ==
    \E op \in Invocations : op.provider # NULL /\ Has(op.rejected, "awaitAccounts")

\* C13: the step in which connectWallet learns that the wallet is already on
\* chainId sends no request (no chain switch) and changes neither result,
\* error, provider, signer, contract nor the wallet's chain.
C13_GuardIdempotent ==
    [][\A i \in 1..Len(ops) :
          ( /\ ResumedFrom(i, "awaitNetwork")
            /\ ops'[i].got.ok
            /\ ops'[i].got.chain = chainId ) =>
              /\ ops'[i].sent = ops[i].sent
              /\ UNCHANGED <<result, error, provider, signer, contract, walletChain>>]_vars

\* connectWallet has read the network, found chainId and returned
C13_Witness ==
    \E op \in Invocations :
        /\ op.sent = <<"eth_requestAccounts", "getNetwork">>
        /\ op.pc = "done"
        /\ op.got.ok
        /\ op.got.chain = chainId

\* C14: provider, signer and contract are written by init alone: a step that
\* changes one of them is the mount step, and no step of connectWallet or of
\* an operation (a trigger, a fulfilment, a rejection) changes them.
C14_SessionWrittenByInit ==
    [][ /\ (<<provider, signer, contract>>' # <<provider, signer, contract>>)
            => (~mounted /\ mounted' /\ ops' = ops)
        /\ ops' # ops => UNCHANGED <<provider, signer, contract>> ]_vars

\* connectWallet went through an approved chain switch, and the cells are
\* still the ones init left
C14_Witness ==
    \E op \in Invocations :
        /\ op.pc = "done"
        /\ Has(op.sent, "wallet_switchEthereumChain")
        /\ op.rejected = <<>>
        /\ provider = op.provider /\ signer = op.signer /\ contract = op.contract

\* C15: one trigger sends at most one authorization request, at most one
\* chain-switch request and at most one contract call, and a rejection ends
\* the invocation: it suffers at most one and is done after it.
C15_NoRetry ==
    \A op \in Invocations :
        /\ Count(op.sent, "eth_requestAccounts") <= 1
        /\ Count(op.sent, "wallet_switchEthereumChain") <= 1
        /\ Count(op.sent, "call") <= 1
        /\ Len(op.rejected) <= 1
        /\ op.rejected # <<>> => op.pc = "done"

\* a contract call was rejected and the invocation ended with that one call
C15_Witness ==
    \E op \in Invocations :
        /\ op.pc = "done"
        /\ op.rejected = <<"awaitCall">>
        /\ Count(op.sent, "call") = 1

\* C16: operations do not exclude each other.  An invocation that has a
\* contract handle issues its call whatever else is pending; a read that is
\* fulfilled stores its own value in the step that fulfils it; and once all
\* invocations (triggered after mount) have ended, result and error are the
\* ones left by the invocation that ended last, not by the one triggered last.
C16_NoMutualExclusion ==
    /\ \A op \in Invocations :
        /\ (op.contract # NULL /\ (comp = "Footer" => op.signer # NULL))
                => Has(op.sent, "call")
        /\ ( /\ op.kind \in ReadKinds
             /\ op.pc = "done"
             /\ Has(op.sent, "call")
             /\ op.rejected = <<>> )
           => op.after.result = ReadResult(op, op.got)
    /\ ( /\ ops # <<>>
         /\ \A op \in Invocations : op.pc = "done" /\ op.mounted )
       => \E op \in Invocations : op.seq = Len(ops) /\ Cells = op.after

\* two calls were pending together, the one triggered first resolved last,
\* and its outcome is the one shown
C16_Witness ==
    /\ Len(ops) = 2
    /\ Has(ops[1].sent, "call") /\ Has(ops[2].sent, "call")
    /\ ops[2].seq = 1
    /\ ops[1].seq = 2
    /\ Cells = ops[1].after
    /\ ops[1].after # ops[2].after

\* the session cells as an invocation sees them
AllSet(op) ==
    op.provider # NULL /\ op.contract # NULL /\ (comp = "Footer" => op.signer # NULL)
AllNull(op) == op.provider = NULL /\ op.contract = NULL /\ op.signer = NULL

ConnectRequests == {"eth_requestAccounts", "getNetwork", "wallet_switchEthereumChain"}

C19_Sticky ==
    [][ /\ result # Unset => result' # Unset
        /\ comp = "Hero" => (error # NULL => error' # NULL)
        /\ (comp = "Footer" /\ error # "" /\ error' = "") =>
              \E i \in 1..Len(ops) :
                  /\ ops[i].pc \in {"awaitCall", "awaitWait"}
                  /\ ops'[i].pc = "done"
                  /\ ops'[i].rejected = <<>>
                  /\ result' \in Addrs
                  /\ result' = ops'[i].after.result ]_vars

\* in Footer an invocation found an error message, stored a pool address and
\* emptied the message; in Hero one stored an error next to a result it kept
C19_Witness ==
    \E op \in Invocations :
        /\ op.pc = "done"
        /\ \/ /\ comp = "Footer"
              /\ Truthy(op.before.error)
              /\ op.after.error = ""
              /\ Truthy(op.after.result)
           \/ /\ comp = "Hero"
              /\ Truthy(op.before.result)
              /\ op.after.result = op.before.result
              /\ op.rejected # <<>>

====
